---- MODULE Spec2Model ----
(***************************************************************************)
(* A model of the bat / butterfly swarm optimizers (src/src/bats.rs,       *)
(* src/src/butterflies.rs) and of the batch harness that runs them in      *)
(* parallel lanes and merges their statistics (src/src/main.rs).           *)
(*                                                                         *)
(* f64 values are modelled as exact extended rationals: a pair <<n, d>>    *)
(* in lowest terms with d > 0 is the number n/d; d = 0 marks the special   *)
(* values +inf (<<1,0>>), -inf (<<-1,0>>) and NaN (<<0,0>>).  A finite     *)
(* result whose magnitude exceeds F64_MAX overflows to an infinity, as in  *)
(* IEEE 754.  Rounding of the mantissa and the sign of zero are not        *)
(* modelled.                                                               *)
(***************************************************************************)
EXTENDS Integers, Sequences, FiniteSets, TLC

(***************************************************************************)
(* Bounds of the model.                                                    *)
(***************************************************************************)
\* the model's largest finite f64 (f64::MAX); f64::MIN is its negation
F64_MAX == 1000
\* largest run_count an accumulator of the statistics workbench may reach
MaxCount == 3
\* dimension of the search space (the const generic N of VectorN<N>)
N == 1
\* length of the tape of raw draws a generator cycles through
RngPeriod == 3
\* largest population built
MaxAgents == 2
\* largest number of iterations of one run
MaxIter == 2
\* largest number of resets of one population
MaxResets == 1
\* largest --try-count of a batch
MaxTries == 3
\* largest number of lanes (num_cpus::get()) of a batch
MaxLanes == 3

VARIABLES
    world,      \* the population a client of the library drives
    before,     \* history: the population before its last operation
    lastOp,     \* history: the last operation on the population
    config,     \* history: the arguments the population was constructed with
    observed,   \* history: <<position, fitness>> evaluated since construct/reset
    runIter,    \* index of the next iteration of the current run
    resets,     \* number of resets so far
    pc,         \* where main is: start, spawning, joining, done, panicked
    args,       \* the parsed command line and num_cpus::get()
    threads,    \* the lanes: one record per spawned thread
    joined,     \* number of lanes main has joined
    result,     \* the accumulator of main's reduce over the joined lanes
    acc,        \* the statistics workbench: three BatchRunData accumulators
    statOp      \* the last operation applied on the workbench (history)

worldVars == <<world, before, lastOp, config, observed, runIter, resets>>

statVars == <<acc, statOp>>

batchVars == <<pc, args, threads, joined, result>>

vars == <<world, before, lastOp, config, observed, runIter, resets, pc, args, threads, joined, result, acc, statOp>>

\* the raw draws of the random generator
RawDraws == {0, 1}

(***************************************************************************)
(* f64 arithmetic.                                                         *)
(***************************************************************************)
\* Op applied to the value of x: x is evaluated once, whatever use Op makes of it
Strict(Op(_), x) == CHOOSE r \in {Op(v) : v \in {x}} : TRUE

Abs(n) == IF n < 0 THEN -n ELSE n

Sign(n) == IF n < 0 THEN -1 ELSE IF n > 0 THEN 1 ELSE 0

RECURSIVE GCD(_, _)
GCD(a, b) == IF b = 0 THEN a ELSE GCD(b, a % b)

INFINITY == <<1, 0>>

NEG_INFINITY == <<-1, 0>>

NAN == <<0, 0>>

IsNaN(a) == a[1] = 0 /\ a[2] = 0

IsInf(a) == a[1] # 0 /\ a[2] = 0

IsFinite(a) == a[2] # 0

\* the f64 nearest to n/d: lowest terms, overflow to an infinity
Norm(n, d) ==
    IF d = 0 THEN <<Sign(n), 0>>
    ELSE LET s == Sign(d)
             g == GCD(Abs(n), Abs(d))
             nn == s * Sign(n) * (Abs(n) \div g)
             dd == Abs(d) \div g
         IN  IF Abs(nn) > F64_MAX * dd THEN <<Sign(nn), 0>> ELSE <<nn, dd>>

\* an integer as f64 (`x as f64`)
F(n) == Norm(n, 1)

MAX == F(F64_MAX)

MIN == F(-F64_MAX)

F64Neg(a) == <<-a[1], a[2]>>

F64Add(a, b) ==
    IF IsNaN(a) \/ IsNaN(b) THEN NAN
    ELSE IF IsInf(a) /\ IsInf(b) THEN (IF a = b THEN a ELSE NAN)
    ELSE IF IsInf(a) THEN a
    ELSE IF IsInf(b) THEN b
    ELSE Norm(a[1] * b[2] + b[1] * a[2], a[2] * b[2])

F64Sub(a, b) == F64Add(a, F64Neg(b))

F64Mul(a, b) == Norm(a[1] * b[1], a[2] * b[2])

F64Div(a, b) ==
    IF IsNaN(a) \/ IsNaN(b) THEN NAN
    ELSE IF IsInf(a) /\ IsInf(b) THEN NAN
    ELSE IF IsInf(a) THEN <<a[1] * (IF b[1] < 0 THEN -1 ELSE 1), 0>>
    ELSE IF IsInf(b) THEN F(0)
    ELSE Norm(a[1] * b[2], a[2] * b[1])

\* a < b on f64: false whenever an operand is NaN
F64Lt(a, b) ==
    /\ ~IsNaN(a)
    /\ ~IsNaN(b)
    /\ a # b
    /\ IF IsInf(a) THEN a = NEG_INFINITY
       ELSE IF IsInf(b) THEN b = INFINITY
       ELSE a[1] * b[2] < b[1] * a[2]

F64Gt(a, b) == F64Lt(b, a)

F64Ge(a, b) == ~IsNaN(a) /\ ~IsNaN(b) /\ ~F64Lt(a, b)

\* a == b on f64: NaN equals nothing
F64Eq(a, b) == ~IsNaN(a) /\ ~IsNaN(b) /\ a = b

(***************************************************************************)
(* BatchRunData: the per-lane statistics accumulator.                      *)
(***************************************************************************)
\* run_count is a u32; the counts of the model stay far below 2^32, so the
\* additions below never wrap
BatchRunData_new ==
    [min_result |-> MAX, max_result |-> MIN, average |-> F(0), run_count |-> 0]

\* impl AddAssign for BatchRunData: self += other
add_assign(self, other) ==
    LET max_result == IF F64Gt(other.max_result, self.max_result)
                      THEN other.max_result ELSE self.max_result
        min_result == IF F64Lt(other.min_result, self.min_result)
                      THEN other.min_result ELSE self.min_result
        self_sum == F64Mul(self.average, F(self.run_count))
        other_sum == F64Mul(other.average, F(other.run_count))
        run_count == self.run_count + other.run_count
    IN  [min_result |-> min_result, max_result |-> max_result,
         average |-> F64Div(F64Add(self_sum, other_sum), F(run_count)),
         run_count |-> run_count]

\* impl AddAssign<f64> for BatchRunData: self += rhs
add_assign_f64(self, rhs) ==
    LET max_result == IF F64Gt(rhs, self.max_result) THEN rhs ELSE self.max_result
        min_result == IF F64Lt(rhs, self.min_result) THEN rhs ELSE self.min_result
        previous_sum == F64Mul(self.average, F(self.run_count))
        run_count == self.run_count + 1
    IN  [min_result |-> min_result, max_result |-> max_result,
         average |-> F64Div(F64Add(previous_sum, rhs), F(run_count)),
         run_count |-> run_count]

(***************************************************************************)
(* The random generator (crate rand).  A generator state is a tape of raw  *)
(* draws that is read cyclically: drawing returns the head of the tape and *)
(* rotates it.  The seed is the whole tape, so every sequence of           *)
(* RngPeriod draws is the stream of some seed; equal generator states      *)
(* yield equal streams, as for any deterministic generator.                *)
(***************************************************************************)
\* the i-th next raw draw of generator g
Draw(g, i) == g[((i - 1) % Len(g)) + 1]

\* generator g after n draws
Rotate(g, n) == [i \in 1..Len(g) |-> g[((i - 1 + n) % Len(g)) + 1]]

\* rng.gen::<f64>(): a number of [0, 1)
GenF64(r) == Norm(r, Cardinality(RawDraws))

\* Uniform::from(lo..hi).sample(rng), rng.gen_range(lo..hi): a number of [lo, hi)
Sample(r, lo, hi) == F64Add(lo, F64Mul(GenF64(r), F64Sub(hi, lo)))

Seeds == [1..RngPeriod -> RawDraws]

(***************************************************************************)
(* VectorN<N>: a sequence of N f64 coordinates.                            *)
(***************************************************************************)
VecDefault == [i \in 1..N |-> F(0)]

VecAdd(a, b) == [i \in 1..N |-> F64Add(a[i], b[i])]

VecSub(a, b) == [i \in 1..N |-> F64Sub(a[i], b[i])]

VecScale(a, k) == [i \in 1..N |-> F64Mul(a[i], k)]

VecAddScalar(a, k) == [i \in 1..N |-> F64Add(a[i], k)]

\* f64::clamp(lo, hi) of one coordinate; NaN stays NaN
Clamp(x, lo, hi) == IF F64Lt(x, lo) THEN lo ELSE IF F64Gt(x, hi) THEN hi ELSE x

VecClamp(a, bounds) == [i \in 1..N |-> Clamp(a[i], bounds[1], bounds[2])]

(***************************************************************************)
(* The objective function: schwefel, the registry's sum of squares plus    *)
(* product of absolute values.                                             *)
(***************************************************************************)
F64Abs(a) == <<Abs(a[1]), a[2]>>

RECURSIVE SumFrom(_, _)
SumFrom(s, i) == IF i > Len(s) THEN F(0) ELSE F64Add(s[i], SumFrom(s, i + 1))

RECURSIVE ProductFrom(_, _)
ProductFrom(s, i) == IF i > Len(s) THEN F(1) ELSE F64Mul(s[i], ProductFrom(s, i + 1))

schwefel(input) ==
    LET absolutes == [i \in 1..N |-> F64Abs(input[i])]
    IN  F64Add(SumFrom([i \in 1..N |-> F64Mul(absolutes[i], absolutes[i])], 1),
               ProductFrom(absolutes, 1))

schwefel_bounds == <<F(-10), F(10)>>

(***************************************************************************)
(* Bat (bats.rs) and Butterfly (butterflies.rs): the two agent types       *)
(* differ only in the sign convention of the move step.                    *)
(***************************************************************************)
\* exp(-pulse_rate_factor * iteration_number), with pulse_rate_factor
\* measured in units of ln 2 so that the value is the exact rational
\* 2^(-factor * iteration)
ExpNeg(pulse_rate_factor, iteration_number) ==
    LET e == pulse_rate_factor * iteration_number
    IN  IF e >= 0 THEN Norm(1, 2 ^ e) ELSE Norm(2 ^ (-e), 1)

\* Bat::new: N position draws, then N velocity draws
Bat_new(lower_bound, upper_bound, min_frequency, max_frequency, pulse_rate, pulse_rate_factor, loudness, loudness_cool_factor, g) ==
    [bat |-> [position |-> [i \in 1..N |-> Sample(Draw(g, i), lower_bound, upper_bound)],
              velocity |-> [i \in 1..N |-> GenF64(Draw(g, N + i))],
              current_pulse_rate |-> pulse_rate,
              original_pulse_rate |-> pulse_rate,
              frequency_bounds |-> <<min_frequency, max_frequency>>,
              pulse_rate_factor |-> pulse_rate_factor,
              loudness |-> loudness,
              loudness_cool_factor |-> loudness_cool_factor,
              best_solution_value |-> INFINITY,
              bounds |-> <<lower_bound, upper_bound>>],
     rng |-> Rotate(g, 2 * N)]

\* Bat::move_bat with the final `self.position.clamp(..)` forgotten
move_bat_NoClamp(variant, self, global_best_solution, g, average_loudness) ==
    LET frequency == Sample(Draw(g, 1), self.frequency_bounds[1], self.frequency_bounds[2])
        velocity == IF variant = "bats"
                    THEN VecAdd(self.velocity,
                                VecScale(VecSub(global_best_solution, self.position), frequency))
                    ELSE VecAdd(self.velocity,
                                VecScale(VecSub(self.position, global_best_solution), frequency))
        moved == IF variant = "bats" THEN VecAdd(self.position, velocity)
                                     ELSE VecSub(self.position, velocity)
        walks == F64Lt(GenF64(Draw(g, 2)), self.current_pulse_rate)
        walked == IF walks
                  THEN VecAddScalar(moved, F64Mul(Sample(Draw(g, 3), F(-1), F(1)),
                                                  average_loudness))
                  ELSE moved
    IN  [bat |-> [self EXCEPT !.velocity = velocity, !.position = walked],
         rng |-> Rotate(g, IF walks THEN 3 ELSE 2)]

\* Bat::move_bat / Butterfly::move_butterfly
move_bat(variant, self, global_best_solution, g, average_loudness) ==
    LET frequency == Sample(Draw(g, 1), self.frequency_bounds[1], self.frequency_bounds[2])
        velocity == IF variant = "bats"
                    THEN VecAdd(self.velocity,
                                VecScale(VecSub(global_best_solution, self.position), frequency))
                    ELSE VecAdd(self.velocity,
                                VecScale(VecSub(self.position, global_best_solution), frequency))
        moved == IF variant = "bats" THEN VecAdd(self.position, velocity)
                                     ELSE VecSub(self.position, velocity)
        walks == F64Lt(GenF64(Draw(g, 2)), self.current_pulse_rate)
        walked == IF walks
                  THEN VecAddScalar(moved, F64Mul(Sample(Draw(g, 3), F(-1), F(1)),
                                                  average_loudness))
                  ELSE moved
    IN  [bat |-> [self EXCEPT !.velocity = velocity,
                              !.position = VecClamp(walked, self.bounds)],
         rng |-> Rotate(g, IF walks THEN 3 ELSE 2)]

\* Bat::update_parameters
update_parameters(self, iteration_number) ==
    [self EXCEPT
        !.loudness = F64Mul(self.loudness, self.loudness_cool_factor),
        !.current_pulse_rate =
            F64Mul(self.original_pulse_rate,
                   F64Sub(F(1), ExpNeg(self.pulse_rate_factor, iteration_number)))]

\* Bat::reset with the line `self.loudness = loudness` forgotten
Bat_reset_KeepLoudness(self, lower_bound, upper_bound, pulse_rate, loudness, g) ==
    [bat |-> [self EXCEPT
                 !.position = [i \in 1..N |-> Sample(Draw(g, i), lower_bound, upper_bound)],
                 !.velocity = [i \in 1..N |-> GenF64(Draw(g, N + i))],
                 !.best_solution_value = INFINITY,
                 !.current_pulse_rate = pulse_rate,
                 !.original_pulse_rate = pulse_rate],
     rng |-> Rotate(g, 2 * N)]

\* Bat::reset
Bat_reset(self, lower_bound, upper_bound, pulse_rate, loudness, g) ==
    [bat |-> [self EXCEPT
                 !.position = [i \in 1..N |-> Sample(Draw(g, i), lower_bound, upper_bound)],
                 !.velocity = [i \in 1..N |-> GenF64(Draw(g, N + i))],
                 !.best_solution_value = INFINITY,
                 !.current_pulse_rate = pulse_rate,
                 !.original_pulse_rate = pulse_rate,
                 !.loudness = loudness],
     rng |-> Rotate(g, 2 * N)]

(***************************************************************************)
(* WorldState (bats.rs, butterflies.rs): the population.  A world is a     *)
(* record; `variant` tells which of the two modules it belongs to and      *)
(* `panicked` that the operation that produced it panicked.                *)
(***************************************************************************)
PanickedWorld(variant) ==
    [variant |-> variant, bats |-> <<>>, best_solution |-> VecDefault,
     best_solution_value |-> INFINITY, bounds |-> <<F(0), F(0)>>,
     random_generator |-> <<>>, initial_pulse_rate |-> F(0),
     initial_loudness |-> F(0), panicked |-> TRUE]

\* the loop `for _ in 0..bat_count { bats.push(Bat::new(..)) }`
RECURSIVE PushBats(_, _, _, _, _, _, _, _)
PushBats(bats, left, bounds, frequency_bounds, initial_pulse_rate, pulse_rate_factor, loudness_pair, g) ==
    IF left = 0 THEN [bats |-> bats, rng |-> g]
    ELSE LET made == Bat_new(bounds[1], bounds[2], frequency_bounds[1],
                             frequency_bounds[2], initial_pulse_rate, pulse_rate_factor,
                             loudness_pair[1], loudness_pair[2], g)
         IN  Strict(LAMBDA m : PushBats(Append(bats, m.bat), left - 1, bounds,
                                        frequency_bounds, initial_pulse_rate,
                                        pulse_rate_factor, loudness_pair, m.rng),
                    made)

\* the loop of WorldState::new that evaluates every bat: <<best_solution, value>>
RECURSIVE InitialBest(_, _, _)
InitialBest(bats, i, best) ==
    IF i > Len(bats) THEN best
    ELSE Strict(LAMBDA bat_value :
                    Strict(LAMBDA next : InitialBest(bats, i + 1, next),
                           IF F64Lt(bat_value, best[2])
                           THEN <<bats[i].position, bat_value>> ELSE best),
                schwefel(bats[i].position))

\* WorldState::new with the bounds compared by > where the code has >=
WorldState_new_AcceptsEmptyInterval(variant, bat_count, bounds, frequency_bounds, initial_pulse_rate, pulse_rate_factor, initial_loudness, loudness_cool_factor, seed) ==
    IF F64Gt(bounds[1], bounds[2]) THEN PanickedWorld(variant)
    ELSE IF F64Gt(frequency_bounds[1], frequency_bounds[2]) THEN PanickedWorld(variant)
    ELSE LET made == PushBats(<<>>, bat_count, bounds, frequency_bounds,
                              initial_pulse_rate, pulse_rate_factor,
                              <<initial_loudness, loudness_cool_factor>>, seed)
             best == InitialBest(made.bats, 1, <<VecDefault, INFINITY>>)
         IN  [variant |-> variant, bats |-> made.bats, best_solution |-> best[1],
              best_solution_value |-> best[2], bounds |-> bounds,
              random_generator |-> made.rng,
              initial_pulse_rate |-> initial_pulse_rate,
              initial_loudness |-> initial_loudness, panicked |-> FALSE]

\* WorldState::new; thread_rng() yields the generator `seed`
WorldState_new(variant, bat_count, bounds, frequency_bounds, initial_pulse_rate, pulse_rate_factor, initial_loudness, loudness_cool_factor, seed) ==
    IF F64Ge(bounds[1], bounds[2]) THEN PanickedWorld(variant)
    ELSE IF F64Ge(frequency_bounds[1], frequency_bounds[2]) THEN PanickedWorld(variant)
    ELSE LET made == PushBats(<<>>, bat_count, bounds, frequency_bounds,
                              initial_pulse_rate, pulse_rate_factor,
                              <<initial_loudness, loudness_cool_factor>>, seed)
             best == InitialBest(made.bats, 1, <<VecDefault, INFINITY>>)
         IN  [variant |-> variant, bats |-> made.bats, best_solution |-> best[1],
              best_solution_value |-> best[2], bounds |-> bounds,
              random_generator |-> made.rng,
              initial_pulse_rate |-> initial_pulse_rate,
              initial_loudness |-> initial_loudness, panicked |-> FALSE]

\* the loop of WorldState::reset over the bats, from bat i on
RECURSIVE ResetFrom(_, _)
ResetFrom(w, i) ==
    IF i > Len(w.bats) THEN w
    ELSE Strict(LAMBDA done :
             Strict(LAMBDA bat_value :
                 Strict(LAMBDA next : ResetFrom(next, i + 1),
                        LET better == F64Lt(bat_value, w.best_solution_value)
                        IN  [w EXCEPT
                                !.bats[i] = done.bat,
                                !.random_generator = done.rng,
                                !.best_solution_value = IF better THEN bat_value ELSE @,
                                !.best_solution = IF better THEN done.bat.position ELSE @]),
                 schwefel(done.bat.position)),
             Bat_reset(w.bats[i], w.bounds[1], w.bounds[2], w.initial_pulse_rate,
                       w.initial_loudness, w.random_generator))

\* WorldState::reset that keeps the best solution of the previous run
reset_KeepsOldBest(w) == ResetFrom(w, 1)

\* WorldState::reset
reset(w) ==
    ResetFrom([w EXCEPT !.best_solution = VecDefault,
                        !.best_solution_value = INFINITY], 1)

\* the loop of WorldState::move_bats over the bats, from bat i on
RECURSIVE MoveFrom(_, _, _)
MoveFrom(w, i, average_loudness) ==
    IF i > Len(w.bats) THEN w
    ELSE Strict(LAMBDA moved :
             Strict(LAMBDA next : MoveFrom(next, i + 1, average_loudness),
                    [w EXCEPT !.bats[i] = moved.bat, !.random_generator = moved.rng]),
             move_bat(w.variant, w.bats[i], w.best_solution, w.random_generator,
                      average_loudness))

\* WorldState::move_bats; reduce(..).unwrap() panics on an empty population
move_bats(w) ==
    IF Len(w.bats) = 0 THEN [w EXCEPT !.panicked = TRUE]
    ELSE Strict(LAMBDA average_loudness : MoveFrom(w, 1, average_loudness),
                F64Div(SumFrom([i \in 1..Len(w.bats) |-> w.bats[i].loudness], 1),
                       F(Len(w.bats))))

\* the loop of WorldState::update_best_known_solution with the bat's own
\* comparison written <= instead of <
RECURSIVE UpdateFrom_NotWorse(_, _, _)
UpdateFrom_NotWorse(w, i, iter_number) ==
    IF i > Len(w.bats) THEN w
    ELSE Strict(LAMBDA bat_value :
             Strict(LAMBDA next : UpdateFrom_NotWorse(next, i + 1, iter_number),
                    LET better == F64Lt(bat_value, w.best_solution_value)
                        improved == ~F64Gt(bat_value, w.bats[i].best_solution_value)
                    IN  [w EXCEPT
                            !.best_solution_value = IF better THEN bat_value ELSE @,
                            !.best_solution = IF better THEN w.bats[i].position ELSE @,
                            !.bats[i] = IF improved
                                        THEN update_parameters(
                                                 [@ EXCEPT !.best_solution_value = bat_value],
                                                 iter_number)
                                        ELSE @]),
             schwefel(w.bats[i].position))

\* the loop of WorldState::update_best_known_solution, from bat i on
RECURSIVE UpdateFrom(_, _, _)
UpdateFrom(w, i, iter_number) ==
    IF i > Len(w.bats) THEN w
    ELSE Strict(LAMBDA bat_value :
             Strict(LAMBDA next : UpdateFrom(next, i + 1, iter_number),
                    LET better == F64Lt(bat_value, w.best_solution_value)
                        improved == F64Lt(bat_value, w.bats[i].best_solution_value)
                    IN  [w EXCEPT
                            !.best_solution_value = IF better THEN bat_value ELSE @,
                            !.best_solution = IF better THEN w.bats[i].position ELSE @,
                            !.bats[i] = IF improved
                                        THEN update_parameters(
                                                 [@ EXCEPT !.best_solution_value = bat_value],
                                                 iter_number)
                                        ELSE @]),
             schwefel(w.bats[i].position))

\* WorldState::update_best_known_solution that stores every evaluated value as
\* the best one, so that the last bat's value wins
update_best_known_solution_NoComparison(w, iter_number) ==
    Strict(LAMBDA done :
               LET last == done.bats[Len(done.bats)]
               IN  [done EXCEPT !.best_solution_value = schwefel(last.position),
                                !.best_solution = last.position],
           UpdateFrom(w, 1, iter_number))

\* WorldState::update_best_known_solution
update_best_known_solution(w, iter_number) == UpdateFrom(w, 1, iter_number)

\* WorldState::do_iteration
do_iteration(w, iter_number) ==
    Strict(LAMBDA moved : IF moved.panicked THEN moved
                          ELSE update_best_known_solution(moved, iter_number),
           move_bats(w))

\* WorldState::do_all_iterations, from iteration `iter` on
RECURSIVE IterateFrom(_, _, _)
IterateFrom(w, iter, iterations) ==
    IF iter >= iterations \/ w.panicked THEN w
    ELSE Strict(LAMBDA next : IterateFrom(next, iter + 1, iterations),
                do_iteration(w, iter))

do_all_iterations(w, iterations) == IterateFrom(w, 0, iterations)

(***************************************************************************)
(* The inputs the model draws.                                             *)
(***************************************************************************)
Variants == {"bats", "butterflies"}

BatCounts == 0..MaxAgents

BoundsChoices == {<<F(-2), F(3)>>, <<F(5), F(5)>>, <<F(3), F(-2)>>}

FrequencyBoundsChoices == {<<F(0), F(2)>>, <<F(1), F(1)>>, <<F(2), F(0)>>}

PulseRates == {F(1), Norm(1, 2)}

PulseRateFactors == {0, 1}

Loudnesses == {F(2)}

CoolFactors == {Norm(1, 2)}

Observations == {F(-1), F(2), MAX, MIN, INFINITY}

(***************************************************************************)
(* A client of the library: constructs one population, then iterates and   *)
(* resets it.                                                              *)
(***************************************************************************)
NoWorld == [PanickedWorld("bats") EXCEPT !.panicked = FALSE]

NoConfig ==
    [bat_count |-> 0, bounds |-> <<F(0), F(0)>>, frequency_bounds |-> <<F(0), F(0)>>,
     initial_pulse_rate |-> F(0), pulse_rate_factor |-> 0, initial_loudness |-> F(0),
     loudness_cool_factor |-> F(0)]

\* the evaluations `function(bat.position)` made on the bats of w
Evaluations(w) == {<<w.bats[i].position, schwefel(w.bats[i].position)>> : i \in 1..Len(w.bats)}

\* do_all_iterations from iteration `iter` on, together with the evaluations
\* its iterations make: [world, evaluated]
RECURSIVE TracedIterateFrom(_, _, _, _)
TracedIterateFrom(w, evaluated, iter, iterations) ==
    IF iter >= iterations \/ w.panicked THEN [world |-> w, evaluated |-> evaluated]
    ELSE Strict(LAMBDA next :
                    TracedIterateFrom(next,
                                      IF next.panicked THEN evaluated
                                      ELSE evaluated \cup Evaluations(next),
                                      iter + 1, iterations),
                do_iteration(w, iter))

InitWorld ==
    /\ world = NoWorld
    /\ before = NoWorld
    /\ lastOp = "none"
    /\ config = NoConfig
    /\ observed = {}
    /\ runIter = 0
    /\ resets = 0

W_New ==
    /\ lastOp = "none"
    /\ \E variant \in Variants, bat_count \in BatCounts, bounds \in BoundsChoices,
          frequency_bounds \in FrequencyBoundsChoices, initial_pulse_rate \in PulseRates,
          pulse_rate_factor \in PulseRateFactors, initial_loudness \in Loudnesses,
          loudness_cool_factor \in CoolFactors, seed \in Seeds :
          /\ world' = WorldState_new(variant, bat_count, bounds, frequency_bounds,
                                     initial_pulse_rate, pulse_rate_factor,
                                     initial_loudness, loudness_cool_factor, seed)
          /\ config' = [bat_count |-> bat_count, bounds |-> bounds,
                        frequency_bounds |-> frequency_bounds,
                        initial_pulse_rate |-> initial_pulse_rate,
                        pulse_rate_factor |-> pulse_rate_factor,
                        initial_loudness |-> initial_loudness,
                        loudness_cool_factor |-> loudness_cool_factor]
    /\ before' = world
    /\ lastOp' = "new"
    /\ observed' = Evaluations(world')
    /\ UNCHANGED <<runIter, resets>>

W_DoIteration ==
    /\ lastOp # "none"
    /\ ~world.panicked
    /\ runIter < MaxIter
    /\ world' = do_iteration(world, runIter)
    /\ before' = world
    /\ lastOp' = "iterate"
    /\ observed' = IF world'.panicked THEN observed ELSE observed \cup Evaluations(world')
    /\ runIter' = runIter + 1
    /\ UNCHANGED <<config, resets>>

W_DoAllIterations ==
    /\ lastOp # "none"
    /\ ~world.panicked
    /\ runIter = 0
    /\ \E iterations \in 0..MaxIter :
          /\ \E done \in {TracedIterateFrom(world, observed, 0, iterations)} :
                /\ world' = done.world
                /\ observed' = done.evaluated
          /\ runIter' = iterations
    /\ before' = world
    /\ lastOp' = "run"
    /\ UNCHANGED <<config, resets>>

W_Reset ==
    /\ lastOp # "none"
    /\ ~world.panicked
    /\ resets < MaxResets
    /\ world' = reset(world)
    /\ before' = world
    /\ lastOp' = "reset"
    /\ observed' = Evaluations(world')
    /\ runIter' = 0
    /\ resets' = resets + 1
    /\ UNCHANGED config

(***************************************************************************)
(* The statistics workbench: three accumulators, each built from           *)
(* BatchRunData::new by folding observations in and merging.  A merge      *)
(* consumes its right operand, which is replaced by a fresh accumulator.   *)
(***************************************************************************)
TotalCount == acc[1].run_count + acc[2].run_count + acc[3].run_count

InitStats ==
    /\ acc = [k \in 1..3 |-> BatchRunData_new]
    /\ statOp = [op |-> "none", k |-> 1, self |-> BatchRunData_new,
                 other |-> BatchRunData_new, rhs |-> F(0)]

S_Fold ==
    /\ TotalCount < MaxCount
    /\ \E k \in 1..3, x \in Observations :
          /\ acc' = [acc EXCEPT ![k] = add_assign_f64(@, x)]
          /\ statOp' = [op |-> "fold", k |-> k, self |-> acc[k],
                        other |-> BatchRunData_new, rhs |-> x]

S_Merge ==
    \E k \in 1..3, j \in 1..3 :
        /\ k # j
        /\ acc' = [acc EXCEPT ![k] = add_assign(acc[k], acc[j]),
                              ![j] = BatchRunData_new]
        /\ statOp' = [op |-> "merge", k |-> k, self |-> acc[k],
                      other |-> acc[j], rhs |-> F(0)]

(***************************************************************************)
(* main (main.rs), batch mode: --try-count is given.  main builds one      *)
(* world, clones it into one thread per cpu, each thread runs              *)
(* tries_per_thread trials, and main joins the threads in spawn order,     *)
(* merging each joined result into the accumulator of its reduce.          *)
(***************************************************************************)
BatchBatCounts == {0, 2}

BatchIterations == {0, 1}

\* the generators main may start from: the constant tapes
BatchSeeds == {[i \in 1..RngPeriod |-> r] : r \in RawDraws}

\* tries.div_ceil(num_cpus::get())
tries_per_thread_Floor(tries, cpus) == tries \div cpus

tries_per_thread(tries, cpus) == (tries + cpus - 1) \div cpus

NoThread ==
    [status |-> "unspawned", thread_world |-> NoWorld, run_stats |-> BatchRunData_new,
     tries_done |-> 0, step |-> "run", start_rng |-> <<>>, folded |-> F(0),
     run_end_value |-> F(0)]

InitBatch ==
    /\ pc = "start"
    /\ args = [tries |-> 0, cpus |-> 1, num_iters |-> 0]
    /\ threads = <<>>
    /\ joined = 0
    /\ result = BatchRunData_new

\* Config::parse, get_bounds, tries_per_thread, WorldState::new
M_Construct ==
    /\ pc = "start"
    /\ \E tries \in 0..MaxTries, cpus \in 1..MaxLanes, num_iters \in BatchIterations,
          variant \in Variants, bat_count \in BatchBatCounts,
          frequency_bounds \in FrequencyBoundsChoices, seed \in BatchSeeds :
          /\ args' = [tries |-> tries, cpus |-> cpus, num_iters |-> num_iters]
          /\ world' = WorldState_new(variant, bat_count, schwefel_bounds, frequency_bounds,
                                     F(1), 1, F(2), Norm(1, 2), seed)
    /\ pc' = IF world'.panicked THEN "panicked" ELSE "spawning"
    /\ UNCHANGED <<before, lastOp, config, observed, runIter, resets, threads, joined, result>>

\* one round of `for _ in 0..num_cpus::get()`: clone the world, spawn a thread
M_Spawn ==
    /\ pc = "spawning"
    /\ threads' = Append(threads, [NoThread EXCEPT !.status = "running",
                                                   !.thread_world = world,
                                                   !.start_rng = world.random_generator])
    /\ pc' = IF Len(threads') = args.cpus THEN "joining" ELSE "spawning"
    /\ UNCHANGED <<worldVars, args, joined, result>>

Running(l) == l \in 1..Len(threads) /\ threads[l].status = "running"

\* thread_world.do_all_iterations(bat_num_iters)
T_Run(l) ==
    /\ Running(l)
    /\ threads[l].step = "run"
    /\ threads[l].tries_done < tries_per_thread(args.tries, args.cpus)
    /\ LET w == do_all_iterations(threads[l].thread_world, args.num_iters)
       IN  threads' = [threads EXCEPT
                          ![l].thread_world = w,
                          ![l].run_end_value = w.best_solution_value,
                          ![l].status = IF w.panicked THEN "panicked" ELSE @,
                          ![l].step = IF w.panicked THEN @ ELSE "fold"]
    /\ UNCHANGED <<worldVars, pc, args, joined, result>>

\* run_stats += function.calculate(thread_world.best_solution)
T_Fold(l) ==
    /\ Running(l)
    /\ threads[l].step = "fold"
    /\ LET x == schwefel(threads[l].thread_world.best_solution)
       IN  threads' = [threads EXCEPT
                          ![l].run_stats = add_assign_f64(@, x),
                          ![l].folded = x,
                          ![l].step = "reset"]
    /\ UNCHANGED <<worldVars, pc, args, joined, result>>

\* thread_world.reset(), the end of one trial
T_Reset(l) ==
    /\ Running(l)
    /\ threads[l].step = "reset"
    /\ threads' = [threads EXCEPT
                      ![l].thread_world = reset(@),
                      ![l].tries_done = @ + 1,
                      ![l].step = "run"]
    /\ UNCHANGED <<worldVars, pc, args, joined, result>>

\* return run_stats
T_Return(l) ==
    /\ Running(l)
    /\ threads[l].step = "run"
    /\ threads[l].tries_done = tries_per_thread(args.tries, args.cpus)
    /\ threads' = [threads EXCEPT ![l].status = "finished"]
    /\ UNCHANGED <<worldVars, pc, args, joined, result>>

\* one round of threads.into_iter().map(join).reduce(a += b): join the next
\* thread, which blocks until it has ended, and merge what it returned
M_Join ==
    /\ pc = "joining"
    /\ LET l == joined + 1
       IN  /\ threads[l].status \in {"finished", "panicked"}
           /\ IF threads[l].status = "panicked"
              THEN /\ pc' = "panicked"
                   /\ UNCHANGED <<joined, result>>
              ELSE /\ joined' = l
                   /\ result' = IF l = 1 THEN threads[l].run_stats
                                ELSE add_assign(result, threads[l].run_stats)
                   /\ pc' = IF l = args.cpus THEN "done" ELSE "joining"
    /\ UNCHANGED <<worldVars, args, threads>>

Init == InitWorld /\ InitBatch /\ InitStats

Next ==
    \/ M_Construct /\ UNCHANGED statVars
    \/ M_Spawn /\ UNCHANGED statVars
    \/ M_Join /\ UNCHANGED statVars
    \/ \E l \in 1..MaxLanes : T_Run(l) /\ UNCHANGED statVars
    \/ \E l \in 1..MaxLanes : T_Fold(l) /\ UNCHANGED statVars
    \/ \E l \in 1..MaxLanes : T_Reset(l) /\ UNCHANGED statVars
    \/ \E l \in 1..MaxLanes : T_Return(l) /\ UNCHANGED statVars

Spec == Init /\ [][Next]_vars

NextWorld ==
    \/ W_New /\ UNCHANGED <<batchVars, statVars>>
    \/ W_DoIteration /\ UNCHANGED <<batchVars, statVars>>
    \/ W_DoAllIterations /\ UNCHANGED <<batchVars, statVars>>
    \/ W_Reset /\ UNCHANGED <<batchVars, statVars>>

SpecWorld == Init /\ [][NextWorld]_vars

NextStats ==
    \/ S_Fold /\ UNCHANGED <<worldVars, batchVars>>
    \/ S_Merge /\ UNCHANGED <<worldVars, batchVars>>

SpecStats == Init /\ [][NextStats]_vars

(***************************************************************************)
(* Claims about the population.                                            *)
(***************************************************************************)
Constructed == lastOp # "none" /\ ~world.panicked

\* the least of a set of fitness values, +inf for the empty set
MinOf(S) == IF S = {} THEN INFINITY
            ELSE CHOOSE v \in S : \A u \in S : ~F64Lt(u, v)

\* C1: after construct, reset and every iterate, best_solution_value is the
\* minimum of all fitness values evaluated since the last construct/reset,
\* and best_solution is a position at which that minimum was evaluated.
C1_GlobalBestIsMinimumObserved ==
    Constructed =>
        /\ world.best_solution_value = MinOf({e[2] : e \in observed})
        /\ observed # {} =>
               <<world.best_solution, world.best_solution_value>> \in observed

C1_Witness ==
    /\ Constructed
    /\ lastOp = "iterate"
    /\ resets > 0
    /\ Cardinality(observed) >= 3
    /\ F64Lt(world.best_solution_value, before.best_solution_value)

\* C2: for both variants, best_solution_value after an iterate (or a whole
\* run of iterates) is never greater than before it.
C2_BestValueNeverIncreases ==
    (lastOp \in {"iterate", "run"} /\ ~world.panicked) =>
        F64Ge(before.best_solution_value, world.best_solution_value)

C2_Witness ==
    /\ lastOp = "iterate"
    /\ world.variant = "butterflies"
    /\ runIter = 2
    /\ F64Lt(world.best_solution_value, before.best_solution_value)

\* C3: right after reset every bat has best_solution_value = +inf and the
\* pulse rate and loudness the population was configured with.
C3_ResetRestoresConfiguredParameters ==
    lastOp = "reset" =>
        \A i \in 1..Len(world.bats) :
            /\ world.bats[i].best_solution_value = INFINITY
            /\ world.bats[i].current_pulse_rate = config.initial_pulse_rate
            /\ world.bats[i].loudness = config.initial_loudness

C3_Witness ==
    /\ lastOp = "reset"
    /\ world.variant = "bats"
    /\ \E i \in 1..Len(world.bats) :
          /\ before.bats[i].loudness # config.initial_loudness
          /\ before.bats[i].current_pulse_rate # config.initial_pulse_rate
          /\ before.bats[i].best_solution_value # INFINITY
          /\ world.bats[i].loudness = config.initial_loudness

BadBounds(c) ==
    \/ F64Ge(c.bounds[1], c.bounds[2])
    \/ F64Ge(c.frequency_bounds[1], c.frequency_bounds[2])

\* C4: constructing with lower >= upper domain bounds or frequency bounds
\* panics, with no bat created and no generator obtained or drawn from.
C4_BadBoundsFailBeforeAnyAgent ==
    (lastOp = "new" /\ BadBounds(config)) =>
        /\ world.panicked
        /\ world.bats = <<>>
        /\ world.random_generator = <<>>

C4_Witness ==
    /\ lastOp = "new"
    /\ config.bounds = <<F(5), F(5)>>
    /\ config.bat_count > 0
    /\ ~F64Ge(config.frequency_bounds[1], config.frequency_bounds[2])
    /\ world.panicked

\* C10: once construction succeeded, no iterate, run or reset panics.
C10_NoFailureAfterConstruction ==
    lastOp \in {"iterate", "run", "reset"} => ~world.panicked

(***************************************************************************)
(* Claims about the statistics.                                            *)
(***************************************************************************)
\* C6: merging is associative and commutative on any three accumulators,
\* empty ones included, in min, max, count and mean.
C6_MergeAssociativeCommutative ==
    /\ add_assign(add_assign(acc[1], acc[2]), acc[3])
           = add_assign(acc[1], add_assign(acc[2], acc[3]))
    /\ add_assign(acc[1], acc[2]) = add_assign(acc[2], acc[1])

\* C7: folding one observation x into an empty accumulator yields
\* min = max = mean = x and count = 1, for every x, +inf included.
C7_FoldIntoEmpty ==
    (statOp.op = "fold" /\ statOp.self = BatchRunData_new) =>
        acc[statOp.k] = [min_result |-> statOp.rhs, max_result |-> statOp.rhs,
                         average |-> statOp.rhs, run_count |-> 1]

\* C8: an accumulator with run_count = 0 is the identity of merge, on either
\* side and for every other operand, and the merge divides by no zero count.
C8_EmptyIsMergeIdentity ==
    statOp.op = "merge" =>
        /\ statOp.self.run_count = 0 => acc[statOp.k] = statOp.other
        /\ statOp.other.run_count = 0 => acc[statOp.k] = statOp.self
        /\ (statOp.self.run_count = 0 \/ statOp.other.run_count = 0) =>
               acc[statOp.k].run_count # 0

(***************************************************************************)
(* Claims about the batch harness.                                         *)
(***************************************************************************)
\* number of trials the lanes i.. have executed
RECURSIVE TrialsFrom(_)
TrialsFrom(i) == IF i > Len(threads) THEN 0 ELSE threads[i].tries_done + TrialsFrom(i + 1)

\* sum of the counts the lanes i.. have accumulated
RECURSIVE CountsFrom(_)
CountsFrom(i) ==
    IF i > Len(threads) THEN 0 ELSE threads[i].run_stats.run_count + CountsFrom(i + 1)

\* C5: for T >= 1 requested trials on L lanes, a finished batch has executed
\* E trials with T <= E <= T + L - 1, and the merged count is E, the sum of
\* the lanes' counts.
C5_ExecutedTrialsAndMergedCount ==
    (pc = "done" /\ args.tries >= 1) =>
        /\ args.tries <= TrialsFrom(1)
        /\ TrialsFrom(1) <= args.tries + args.cpus - 1
        /\ CountsFrom(1) = TrialsFrom(1)
        /\ result.run_count = TrialsFrom(1)

C5_Witness ==
    /\ pc = "done"
    /\ args.tries = 3
    /\ args.cpus = 2
    /\ TrialsFrom(1) = 4
    /\ result.run_count = 4

\* C9: no two lanes start from the same random-generator state.
C9_LanesStartFromDistinctGenerators ==
    \A i, j \in 1..Len(threads) :
        i # j => threads[i].start_rng # threads[j].start_rng

\* C11: no two lane statistics are merged while a lane is still running: once
\* the reduce of main has merged (two or more lanes joined), every lane has
\* ended.
C11_NoMergeBeforeAllLanesFinished ==
    joined >= 2 => \A l \in 1..Len(threads) : threads[l].status # "running"

\* C14: the value a lane folds into its run_stats is the best_solution_value
\* its world had when do_all_iterations of that trial returned, also when no
\* bat was ever evaluated.
C14_FoldedValueIsBestValueOfRun ==
    \A l \in 1..Len(threads) :
        threads[l].step = "reset" => threads[l].folded = threads[l].run_end_value

(***************************************************************************)
(* Claims about the agents of a population.                                *)
(***************************************************************************)
\* C12: an iterate leaves loudness, current_pulse_rate and
\* best_solution_value of every bat whose freshly evaluated fitness is not
\* strictly less than its best_solution_value unchanged, whether or not the
\* iterate changed the global best.
C12_ParametersChangeOnlyOnStrictImprovement ==
    (lastOp = "iterate" /\ ~world.panicked) =>
        \A i \in 1..Len(world.bats) :
            ~F64Lt(schwefel(world.bats[i].position), before.bats[i].best_solution_value) =>
                /\ world.bats[i].loudness = before.bats[i].loudness
                /\ world.bats[i].current_pulse_rate = before.bats[i].current_pulse_rate
                /\ world.bats[i].best_solution_value = before.bats[i].best_solution_value

C12_Witness ==
    /\ lastOp = "iterate"
    /\ ~world.panicked
    /\ F64Lt(world.best_solution_value, before.best_solution_value)
    /\ \E i, j \in 1..Len(world.bats) :
          /\ ~F64Lt(schwefel(world.bats[i].position), before.bats[i].best_solution_value)
          /\ IsFinite(before.bats[i].best_solution_value)
          /\ world.bats[i].loudness = before.bats[i].loudness
          /\ F64Lt(schwefel(world.bats[j].position), before.bats[j].best_solution_value)
          /\ world.bats[j].loudness # before.bats[j].loudness

\* C13: with the pulse rate configured in [0,1] and a growth factor >= 0,
\* after every iterate of a run each bat's current_pulse_rate lies in [0,1]
\* and is not less than it was before that iterate.
C13_PulseRateInUnitIntervalAndNeverDecreases ==
    (lastOp = "iterate" /\ ~world.panicked) =>
        \A i \in 1..Len(world.bats) :
            /\ F64Ge(world.bats[i].current_pulse_rate, F(0))
            /\ F64Ge(F(1), world.bats[i].current_pulse_rate)
            /\ F64Ge(world.bats[i].current_pulse_rate, before.bats[i].current_pulse_rate)

\* C15: after construct, every iterate and every reset, every component of
\* every bat's position lies within the bounds of the population.
C15_PositionsWithinBounds ==
    Constructed =>
        \A i \in 1..Len(world.bats), k \in 1..N :
            /\ F64Ge(world.bats[i].position[k], world.bounds[1])
            /\ F64Ge(world.bounds[2], world.bats[i].position[k])

C15_Witness ==
    /\ lastOp = "iterate"
    /\ ~world.panicked
    /\ world.variant = "bats"
    /\ \E i \in 1..Len(world.bats), k \in 1..N :
          /\ world.bats[i].position[k] = world.bounds[2]
          /\ F64Gt(F64Add(before.bats[i].position[k], world.bats[i].velocity[k]),
                   world.bounds[2])

====
